---- MODULE Spec2Model ----
(***************************************************************************)
(* Model of autopr.agents.plan_and_code.PlanAndCode: one handle_event      *)
(* call, its create_pull_request attempt and the write_commit rounds.      *)
(* The collaborators (action, publish, diff and commit services) are the   *)
(* environment; every call the agent makes on them is appended to `calls`. *)
(* The action, diff and commit services may raise; the publish service is  *)
(* fire-and-forget reporting and its calls return.                         *)
(* TLA+ strings are ASCII, so the leading emoji of the three progress      *)
(* texts is left out of the literals; the rest of each text is verbatim.   *)
(***************************************************************************)
EXTENDS FiniteSets, Integers, Sequences, TLC

VARIABLES
    pc,           \* position of the agent in handle_event/create_pull_request/write_commit
    event,        \* the event handed to handle_event
    context,      \* the ContextDict threaded through the stages
    pr_desc,      \* local of create_pull_request
    idx,          \* number of entries of pr_desc.commits the for loop has taken
    commit_plan,  \* parameter of write_commit (current_commit of the loop)
    diff,         \* local of write_commit
    outcome,      \* how handle_event ended
    calls,        \* collaborator calls of the current handle_event call, in order
    attempt       \* number of handle_event calls made on this agent instance

vars == <<pc, event, context, pr_desc, idx, commit_plan, diff, outcome, calls, attempt>>

----------------------------------------------------------------------------
(* Bounds of the explored inputs. *)

MaxCommits == 2

MaxAttempts == 2

\* Constructor argument of the agent (default 5); any positive value is a
\* legal configuration.
max_codegen_iterations == 2

----------------------------------------------------------------------------
(* Agent configuration (constructor defaults). *)

planning_actions == {"plan_pull_request", "request_more_information"}

codegen_actions == {"new_file", "edit_file"}

\* Variant: planning runs under the codegen bound.
PlanningUnderCodegenBound == max_codegen_iterations

PlanningMaxIterations == 1

----------------------------------------------------------------------------
(* Values. *)

NoValue == [type |-> "NoneType"]

\* Issues are opaque to the agent: two of them tell one attempt's issue from
\* another's.
Issues == {[type |-> "Issue", number |-> n] : n \in {1, 2}}

EventTypes == {"IssueLabelEvent", "PullRequestCommentEvent"}

Events == {[type |-> t, issue |-> i] : t \in EventTypes, i \in Issues}

\* The events of the first attempt.
FirstEvents == {e \in Events : e.issue.number = 1}

Messages == {"Add foo.py", "Fix bar.py"}

CommitPlanOf(m) == [type |-> "CommitPlan", commit_message |-> m]

CommitPlans == {CommitPlanOf(m) : m \in Messages}

SeqsUpTo(S, n) == UNION {[1..k -> S] : k \in 0..n}

Plans == SeqsUpTo(CommitPlans, MaxCommits)

Titles == {"Add foo"}

Bodies == {"Closes the issue"}

Descriptions ==
    {[type |-> "PullRequestDescription", title |-> t, body |-> b, commits |-> p] :
        t \in Titles, b \in Bodies, p \in Plans}

\* A value under 'pull_request_description' that is not a PullRequestDescription.
WrongTypeDescriptions ==
    {[type |-> "dict", title |-> "Add foo", body |-> "Closes the issue",
      commits |-> <<CommitPlanOf("Add foo.py")>>]}

Diffs == {"", "+print('foo')"}

ListOf(s) == [type |-> "list", items |-> s]

----------------------------------------------------------------------------
(* ContextDict operations. *)

Has(ctx, key) == key \in DOMAIN ctx

Put(ctx, key, value) ==
    [k \in (DOMAIN ctx) \cup {key} |-> IF k = key THEN value ELSE ctx[k]]

Del(ctx, key) == [k \in (DOMAIN ctx) \ {key} |-> ctx[k]]

EmptyContext == [k \in {} |-> NoValue]

----------------------------------------------------------------------------
(* Action service: run_actions_iteratively(action_ids, context, ...).      *)
(* The runner executes at most max_iterations actions drawn from           *)
(* action_ids, appends one action_history entry per executed action and    *)
(* merges the actions' results into the context it returns.                *)

PutKey(key, value) == [kind |-> "put", key |-> key, value |-> value]

DelKey(key) == [kind |-> "del", key |-> key, value |-> NoValue]

\* What an executed action may do to the context besides adding its history
\* entry: a sequence of key updates and removals. Planning actions produce
\* a description (well typed or not) or nothing; codegen actions may add
\* results of their own and may overwrite or drop any key, the reserved
\* ones included.
ActionEffects(action_id) ==
    CASE action_id = "plan_pull_request" ->
             {<<PutKey("pull_request_description", d)>> :
                 d \in Descriptions \cup WrongTypeDescriptions}
      [] action_id = "request_more_information" ->
             {<<>>}
      [] action_id = "new_file" ->
             {<<PutKey("current_commit", CommitPlanOf("Fix bar.py")),
                DelKey("pull_request_description")>>}
      [] action_id = "edit_file" ->
             {<<PutKey("edited", ListOf(<<"bar.py">>))>>,
              <<DelKey("current_commit"),
                PutKey("pull_request_description",
                       [type |-> "PullRequestDescription", title |-> "Replaced",
                        body |-> "Replaced", commits |-> <<>>])>>}

RECURSIVE ApplyEffect(_, _)
ApplyEffect(ctx, es) ==
    IF es = <<>> THEN ctx
    ELSE LET e == Head(es) IN
         ApplyEffect(IF e.kind = "put" THEN Put(ctx, e.key, e.value) ELSE Del(ctx, e.key),
                     Tail(es))

AppendHistory(ctx, executed) ==
    IF executed = <<>> THEN ctx
    ELSE Put(ctx, "action_history",
             ListOf((IF Has(ctx, "action_history") THEN ctx["action_history"].items ELSE <<>>)
                    \o executed))

\* A run that executes action `a` n times.
Repeat(a, n) == [i \in 1..n |-> a]

\* The lengths of the non-empty runs explored: the shortest and the longest
\* the bound allows.
RunLengths(max_iterations) == {n \in {1, max_iterations} : n <= max_iterations}

\* The runs of the runner: the actions executed, in order (none, or one
\* action id taken up to max_iterations times), and the context handed
\* back, which carries the history entries and the result of the action.
RunOutcomes(action_ids, ctx, max_iterations) ==
    {[executed |-> <<>>, context |-> ctx]} \cup
    UNION {{[executed |-> Repeat(a, n),
             context  |-> ApplyEffect(AppendHistory(ctx, Repeat(a, n)), e)] :
               n \in RunLengths(max_iterations), e \in ActionEffects(a)} :
           a \in action_ids}

----------------------------------------------------------------------------
(* Bookkeeping of collaborator calls and of the way handle_event ends. *)

NoException == [kind |-> "none", message |-> ""]

\* The exception a failing collaborator call raises.
FailureOf(op) == [kind |-> "ServiceError", message |-> op \o " failed"]

Running == [kind |-> "running", message |-> ""]

Returned == [kind |-> "returned", message |-> ""]

\* A call that returned `result`.
Call(op, args, result) ==
    [op |-> op, entry |-> idx, args |-> args, raised |-> NoException, returned |-> result]

\* A call that raised.
FailedCall(op, args) ==
    [op |-> op, entry |-> idx, args |-> args, raised |-> FailureOf(op), returned |-> NoValue]

\* An exception leaves handle_event.
Raise(exc) ==
    /\ pc' = "done"
    /\ outcome' = exc

----------------------------------------------------------------------------
(* Pure parts of the agent's code. *)

\* Variant: the dispatch accepts every event of the union.
IsAnyEvent(ev) == ev.type \in EventTypes

IsIssueLabelEvent(ev) == ev.type = "IssueLabelEvent"

\* Variant: the context is an attribute of the agent, reused by every attempt.
InitialContextShared(ev) == Put(context, "issue", ev.issue)

InitialContext(ev) == Put(EmptyContext, "issue", ev.issue)

HasDescription(ctx) == Has(ctx, "pull_request_description")

GetDescription(ctx) == ctx["pull_request_description"]

\* Variant: the value is accepted when it merely has a commits field.
HasCommitsField(v) == "commits" \in DOMAIN v

IsPullRequestDescription(v) == v.type = "PullRequestDescription"

TypeErrorOf(v) ==
    [kind |-> "TypeError",
     message |-> "Actions returned a pull request description of type " \o v.type
                 \o " instead of PullRequestDescription"]

NotImplementedErrorOf(ev) ==
    [kind |-> "NotImplementedError",
     message |-> "Event type " \o ev.type \o " not supported"]

\* Variant: title and body passed in the wrong order.
DescriptionArgsSwapped(d) == [title |-> d.body, body |-> d.title]

DescriptionArgs(d) == [title |-> d.title, body |-> d.body]

StartText(cp) == "Writing commit " \o cp.commit_message

\* Variant: current_commit is set only when the context has none
\* (setdefault instead of assignment).
StampCommitIfMissing(ctx, cp) ==
    IF Has(ctx, "current_commit") THEN ctx ELSE Put(ctx, "current_commit", cp)

StampCommit(ctx, cp) == Put(ctx, "current_commit", cp)

\* Variant: the history of the previous round is kept.
KeepHistory(ctx) == ctx

ClearHistory(ctx) == Put(ctx, "action_history", ListOf(<<>>))

CodegenHeadings(context_headings) ==
    [k \in {"current_commit", "action_history"} \cup DOMAIN context_headings |->
        IF k \in DOMAIN context_headings THEN context_headings[k]
        ELSE IF k = "current_commit" THEN "Commit we are currently generating"
        ELSE "Actions that have been run so far"]

PullRequestHeadings == [k \in {"pull_request_description"} |-> "Plan for the pull request"]

DiffIsTruthy(d) == d # ""

CodeBlockArgs(d) == [heading |-> "Diff", code |-> d, language |-> "diff"]

\* Variant: the text is not an f-string, so the placeholder is not filled in.
CommittedTextUnformatted(cp) == "Committed {commit_plan.commit_message}"

CommittedText(cp) == "Committed " \o cp.commit_message

EmptyCommitText(cp) == "Empty commit " \o cp.commit_message

CommitArgs(cp) == [message |-> cp.commit_message, push |-> TRUE]

\* Variant: the loop re-reads the description from the context on every turn.
HasNextCommitInContext(d, i) ==
    /\ Has(context, "pull_request_description")
    /\ i < Len(context["pull_request_description"].commits)

HasNextCommit(d, i) == i < Len(d.commits)

\* Variant: the plan is walked from its last entry.
NextCommitReversed(d, i) == d.commits[Len(d.commits) - i]

NextCommit(d, i) == d.commits[i + 1]

----------------------------------------------------------------------------
(* The agent. *)

Unset == "<unset>"

Init ==
    /\ pc = "handle_event"
    /\ event \in FirstEvents
    /\ context = EmptyContext
    /\ pr_desc = NoValue
    /\ idx = 0
    /\ commit_plan = NoValue
    /\ diff = Unset
    /\ outcome = Running
    /\ calls = <<>>
    /\ attempt = 1

\* handle_event: dispatch on the event variant.
HandleEvent ==
    /\ pc = "handle_event"
    /\ IF IsIssueLabelEvent(event)
       THEN pc' = "overwrite_new_branch" /\ outcome' = outcome
       ELSE Raise(NotImplementedErrorOf(event))
    /\ UNCHANGED <<attempt, event, context, pr_desc, idx, commit_plan, diff, calls>>

\* Variant: a failing branch creation is ignored and planning starts anyway.
OverwriteNewBranchIgnoringFailure ==
    /\ pc = "overwrite_new_branch"
    /\ \/ calls' = Append(calls, FailedCall("overwrite_new_branch", NoValue))
       \/ calls' = Append(calls, Call("overwrite_new_branch", NoValue, NoValue))
    /\ pc' = "planning"
    /\ outcome' = outcome
    /\ UNCHANGED <<attempt, event, context, pr_desc, idx, commit_plan, diff>>

\* create_pull_request: commit_service.overwrite_new_branch()
OverwriteNewBranch ==
    /\ pc = "overwrite_new_branch"
    /\ \/ /\ calls' = Append(calls, FailedCall("overwrite_new_branch", NoValue))
          /\ Raise(FailureOf("overwrite_new_branch"))
       \/ /\ calls' = Append(calls, Call("overwrite_new_branch", NoValue, NoValue))
          /\ pc' = "planning"
          /\ outcome' = outcome
    /\ UNCHANGED <<attempt, event, context, pr_desc, idx, commit_plan, diff>>

\* create_pull_request: context = ContextDict(issue=issue), then the planning run.
PlanningRun ==
    /\ pc = "planning"
    /\ LET ctx0 == InitialContext(event)
           args == [action_ids |-> planning_actions, context |-> ctx0,
                    max_iterations |-> PlanningMaxIterations]
       IN \/ /\ calls' = Append(calls, FailedCall("run_actions_iteratively", args))
             /\ context' = ctx0
             /\ Raise(FailureOf("run_actions_iteratively"))
          \/ \E r \in RunOutcomes(planning_actions, ctx0, PlanningMaxIterations) :
                /\ calls' = Append(calls, Call("run_actions_iteratively", args, r))
                /\ context' = r.context
                /\ pc' = "check_description"
                /\ outcome' = outcome
    /\ UNCHANGED <<attempt, event, pr_desc, idx, commit_plan, diff>>

\* Variant: the description is read without the membership test, so a
\* missing key raises KeyError.
CheckDescriptionUnguarded ==
    /\ pc = "check_description"
    /\ IF ~HasDescription(context)
       THEN Raise([kind |-> "KeyError", message |-> "pull_request_description"])
            /\ pr_desc' = pr_desc
       ELSE /\ pr_desc' = GetDescription(context)
            /\ IF ~IsPullRequestDescription(pr_desc')
               THEN Raise(TypeErrorOf(pr_desc'))
               ELSE pc' = "set_pr_description" /\ outcome' = outcome
    /\ UNCHANGED <<attempt, event, context, idx, commit_plan, diff, calls>>

\* create_pull_request: look the description up in the context.
CheckDescription ==
    /\ pc = "check_description"
    /\ IF ~HasDescription(context)
       THEN pc' = "done" /\ outcome' = Returned /\ pr_desc' = pr_desc
       ELSE /\ pr_desc' = GetDescription(context)
            /\ IF ~IsPullRequestDescription(pr_desc')
               THEN Raise(TypeErrorOf(pr_desc'))
               ELSE pc' = "set_pr_description" /\ outcome' = outcome
    /\ UNCHANGED <<attempt, event, context, idx, commit_plan, diff, calls>>

\* create_pull_request: publish_service.set_pr_description(title, body)
SetPrDescription ==
    /\ pc = "set_pr_description"
    /\ calls' = Append(calls, Call("set_pr_description", DescriptionArgs(pr_desc), NoValue))
    /\ pc' = "for_commits"
    /\ UNCHANGED <<attempt, event, context, pr_desc, idx, commit_plan, diff, outcome>>

\* Variant: the loop returns after its first entry.
ForCommitsFirstOnly ==
    /\ pc = "for_commits"
    /\ IF HasNextCommit(pr_desc, idx) /\ idx = 0
       THEN /\ commit_plan' = NextCommit(pr_desc, idx)
            /\ idx' = idx + 1
            /\ diff' = Unset
            /\ pc' = "start_section"
            /\ outcome' = outcome
       ELSE /\ pc' = "done"
            /\ outcome' = Returned
            /\ UNCHANGED <<commit_plan, idx, diff>>
    /\ UNCHANGED <<attempt, event, context, pr_desc, calls>>

\* create_pull_request: for current_commit in pr_desc.commits
ForCommits ==
    /\ pc = "for_commits"
    /\ IF HasNextCommit(pr_desc, idx)
       THEN /\ commit_plan' = NextCommit(pr_desc, idx)
            /\ idx' = idx + 1
            /\ diff' = Unset
            /\ pc' = "start_section"
            /\ outcome' = outcome
       ELSE /\ pc' = "done"
            /\ outcome' = Returned
            /\ UNCHANGED <<commit_plan, idx, diff>>
    /\ UNCHANGED <<attempt, event, context, pr_desc, calls>>

\* write_commit: publish_service.start_section(...)
StartSection ==
    /\ pc = "start_section"
    /\ calls' = Append(calls, Call("start_section", [text |-> StartText(commit_plan)], NoValue))
    /\ pc' = "stamp_context"
    /\ UNCHANGED <<attempt, event, context, pr_desc, idx, commit_plan, diff, outcome>>

\* write_commit: context['current_commit'] = commit_plan; context['action_history'] = []
StampContext ==
    /\ pc = "stamp_context"
    /\ context' = ClearHistory(StampCommit(context, commit_plan))
    /\ pc' = "codegen"
    /\ UNCHANGED <<attempt, event, pr_desc, idx, commit_plan, diff, outcome, calls>>

\* Variant: the context returned by the runner is dropped and the context
\* passed in is carried on.
CodegenRunDiscardingResult ==
    /\ pc = "codegen"
    /\ LET args == [action_ids |-> codegen_actions, context |-> context,
                    context_headings |-> CodegenHeadings(PullRequestHeadings),
                    max_iterations |-> max_codegen_iterations,
                    include_finished |-> TRUE]
       IN \/ /\ calls' = Append(calls, FailedCall("run_actions_iteratively", args))
             /\ context' = context
             /\ Raise(FailureOf("run_actions_iteratively"))
          \/ \E r \in RunOutcomes(codegen_actions, context, max_codegen_iterations) :
                /\ calls' = Append(calls, Call("run_actions_iteratively", args, r))
                /\ context' = context
                /\ pc' = "get_diff"
                /\ outcome' = outcome
    /\ UNCHANGED <<attempt, event, pr_desc, idx, commit_plan, diff>>

\* write_commit: the codegen run
CodegenRun ==
    /\ pc = "codegen"
    /\ LET args == [action_ids |-> codegen_actions, context |-> context,
                    context_headings |-> CodegenHeadings(PullRequestHeadings),
                    max_iterations |-> max_codegen_iterations,
                    include_finished |-> TRUE]
       IN \/ /\ calls' = Append(calls, FailedCall("run_actions_iteratively", args))
             /\ context' = context
             /\ Raise(FailureOf("run_actions_iteratively"))
          \/ \E r \in RunOutcomes(codegen_actions, context, max_codegen_iterations) :
                /\ calls' = Append(calls, Call("run_actions_iteratively", args, r))
                /\ context' = r.context
                /\ pc' = "get_diff"
                /\ outcome' = outcome
    /\ UNCHANGED <<attempt, event, pr_desc, idx, commit_plan, diff>>

\* Variant: the diff service is asked in the first round only; later rounds
\* reuse a diff taken earlier.
GetDiffFirstRoundOnly ==
    /\ pc = "get_diff"
    /\ IF idx = 1
       THEN \/ /\ calls' = Append(calls, FailedCall("get_diff", NoValue))
               /\ diff' = diff
               /\ Raise(FailureOf("get_diff"))
            \/ \E d \in Diffs :
                  /\ calls' = Append(calls, Call("get_diff", NoValue, d))
                  /\ diff' = d
                  /\ pc' = "report"
                  /\ outcome' = outcome
       ELSE /\ calls' = calls
            /\ diff' = calls[CHOOSE i \in DOMAIN calls : calls[i].op = "get_diff"].returned
            /\ pc' = "report"
            /\ outcome' = outcome
    /\ UNCHANGED <<attempt, event, context, pr_desc, idx, commit_plan>>

\* write_commit: diff = diff_service.get_diff()
GetDiff ==
    /\ pc = "get_diff"
    /\ \/ /\ calls' = Append(calls, FailedCall("get_diff", NoValue))
          /\ diff' = diff
          /\ Raise(FailureOf("get_diff"))
       \/ \E d \in Diffs :
             /\ calls' = Append(calls, Call("get_diff", NoValue, d))
             /\ diff' = d
             /\ pc' = "report"
             /\ outcome' = outcome
    /\ UNCHANGED <<attempt, event, context, pr_desc, idx, commit_plan>>

\* Variant: the commit is made before the diff is reported.
ReportAfterCommit ==
    /\ pc = "report"
    /\ IF DiffIsTruthy(diff)
       THEN calls' = calls \o
                <<Call("commit", CommitArgs(commit_plan), NoValue),
                  Call("publish_code_block", CodeBlockArgs(diff), NoValue),
                  Call("end_section", [text |-> CommittedText(commit_plan)], NoValue)>>
       ELSE calls' = calls \o
                <<Call("commit", CommitArgs(commit_plan), NoValue),
                  Call("end_section", [text |-> EmptyCommitText(commit_plan)], NoValue)>>
    /\ pc' = "for_commits"
    /\ UNCHANGED <<attempt, event, context, pr_desc, idx, commit_plan, diff, outcome>>

\* Variant: the success report is sent before the code block.
ReportBeforeCodeBlock ==
    /\ pc = "report"
    /\ IF DiffIsTruthy(diff)
       THEN calls' = calls \o
                <<Call("end_section", [text |-> CommittedText(commit_plan)], NoValue),
                  Call("publish_code_block", CodeBlockArgs(diff), NoValue)>>
       ELSE calls' = Append(calls,
                Call("end_section", [text |-> EmptyCommitText(commit_plan)], NoValue))
    /\ pc' = "commit"
    /\ UNCHANGED <<attempt, event, context, pr_desc, idx, commit_plan, diff, outcome>>

\* Variant: an empty diff is not reported, so its section is never closed.
ReportWithoutWarning ==
    /\ pc = "report"
    /\ IF DiffIsTruthy(diff)
       THEN calls' = calls \o
                <<Call("publish_code_block", CodeBlockArgs(diff), NoValue),
                  Call("end_section", [text |-> CommittedText(commit_plan)], NoValue)>>
       ELSE calls' = calls
    /\ pc' = "commit"
    /\ UNCHANGED <<attempt, event, context, pr_desc, idx, commit_plan, diff, outcome>>

\* write_commit: if diff: publish_code_block + end_section, else: end_section
Report ==
    /\ pc = "report"
    /\ IF DiffIsTruthy(diff)
       THEN calls' = calls \o
                <<Call("publish_code_block", CodeBlockArgs(diff), NoValue),
                  Call("end_section", [text |-> CommittedText(commit_plan)], NoValue)>>
       ELSE calls' = Append(calls,
                Call("end_section", [text |-> EmptyCommitText(commit_plan)], NoValue))
    /\ pc' = "commit"
    /\ UNCHANGED <<attempt, event, context, pr_desc, idx, commit_plan, diff, outcome>>

\* Variant: an empty diff is not committed.
CommitUnlessEmpty ==
    /\ pc = "commit"
    /\ IF DiffIsTruthy(diff)
       THEN \/ /\ calls' = Append(calls, FailedCall("commit", CommitArgs(commit_plan)))
               /\ Raise(FailureOf("commit"))
            \/ /\ calls' = Append(calls, Call("commit", CommitArgs(commit_plan), NoValue))
               /\ pc' = "for_commits"
               /\ outcome' = outcome
       ELSE /\ calls' = calls
            /\ pc' = "for_commits"
            /\ outcome' = outcome
    /\ UNCHANGED <<attempt, event, context, pr_desc, idx, commit_plan, diff>>

\* Variant: a failing commit is swallowed and the loop goes on.
CommitSwallowingFailure ==
    /\ pc = "commit"
    /\ \/ calls' = Append(calls, FailedCall("commit", CommitArgs(commit_plan)))
       \/ calls' = Append(calls, Call("commit", CommitArgs(commit_plan), NoValue))
    /\ pc' = "for_commits"
    /\ outcome' = outcome
    /\ UNCHANGED <<attempt, event, context, pr_desc, idx, commit_plan, diff>>

\* write_commit: commit_service.commit(commit_plan.commit_message, push=True); return context
Commit ==
    /\ pc = "commit"
    /\ \/ /\ calls' = Append(calls, FailedCall("commit", CommitArgs(commit_plan)))
          /\ Raise(FailureOf("commit"))
       \/ /\ calls' = Append(calls, Call("commit", CommitArgs(commit_plan), NoValue))
          /\ pc' = "for_commits"
          /\ outcome' = outcome
    /\ UNCHANGED <<attempt, event, context, pr_desc, idx, commit_plan, diff>>

Next ==
    \/ HandleEvent
    \/ OverwriteNewBranch
    \/ PlanningRun
    \/ CheckDescription
    \/ SetPrDescription
    \/ ForCommits
    \/ StartSection
    \/ StampContext
    \/ CodegenRun
    \/ GetDiff
    \/ Report
    \/ Commit

Spec == Init /\ [][Next]_vars

\* Every step the agent can take is eventually taken: collaborator calls
\* return or raise, they do not hang.
FairSpec == Spec /\ WF_vars(Next)

\* handle_event is called again on the same agent instance, after the
\* previous call ended or while it is still in flight. The new call has its
\* own frame; the agent object carries no context. The model leaves the
\* previous frame's context and pr_desc in place until the new call assigns
\* its own, so that any reuse of them would show.
NewEvent ==
    /\ attempt < MaxAttempts
    /\ pc # "handle_event"
    /\ attempt' = attempt + 1
    /\ event' \in Events
    /\ pc' = "handle_event"
    /\ idx' = 0
    /\ commit_plan' = NoValue
    /\ diff' = Unset
    /\ outcome' = Running
    /\ calls' = <<>>
    /\ UNCHANGED <<context, pr_desc>>

NextAgain ==
    \/ Next
    \/ NewEvent

SpecAgain == Init /\ [][NextAgain]_vars

TypeOK ==
    /\ pc \in {"handle_event", "overwrite_new_branch", "planning", "check_description",
               "set_pr_description", "for_commits", "start_section", "stamp_context",
               "codegen", "get_diff", "report", "commit", "done"}
    /\ outcome.kind \in {"running", "returned", "NotImplementedError", "TypeError",
                         "ServiceError"}
    /\ (pc = "done") <=> (outcome # Running)
    /\ idx \in 0..MaxCommits
    /\ event \in Events
    /\ attempt \in 1..MaxAttempts

----------------------------------------------------------------------------
(* Reading the record of collaborator calls. *)

CallIdx(op) == {i \in DOMAIN calls : calls[i].op = op}

EntryIdx(op, k) == {i \in CallIdx(op) : calls[i].entry = k}

CallsTo(op) == SelectSeq(calls, LAMBDA c : c.op = op)

IsPlanningCall(c) == c.op = "run_actions_iteratively" /\ c.entry = 0

IsCodegenCall(c) == c.op = "run_actions_iteratively" /\ c.entry > 0

CodegenCalls == SelectSeq(calls, IsCodegenCall)

\* A call made by write_commit.
IsRoundCall(c) ==
    \/ c.op \in {"start_section", "publish_code_block", "end_section", "get_diff", "commit"}
    \/ IsCodegenCall(c)

PlanningDone ==
    \E i \in DOMAIN calls : IsPlanningCall(calls[i]) /\ calls[i].raised = NoException

\* The context the planning run returned.
PlannedContext ==
    calls[CHOOSE i \in DOMAIN calls : IsPlanningCall(calls[i])].returned.context

DescriptionAbsent ==
    PlanningDone /\ "pull_request_description" \notin DOMAIN PlannedContext

DescriptionIllTyped ==
    /\ PlanningDone
    /\ "pull_request_description" \in DOMAIN PlannedContext
    /\ PlannedContext["pull_request_description"].type # "PullRequestDescription"

Planned ==
    /\ PlanningDone
    /\ "pull_request_description" \in DOMAIN PlannedContext
    /\ PlannedContext["pull_request_description"].type = "PullRequestDescription"

PlannedDescription == PlannedContext["pull_request_description"]

Plan == PlannedDescription.commits

MessageOf(k) == Plan[k].commit_message

\* The attempt ran to its end and no collaborator call failed.
Completed == pc = "done" /\ outcome = Returned

\* Round k has gone past its report / past its commit call.
Reported(k) == idx > k \/ (idx = k /\ pc \in {"commit", "for_commits", "done"})

CommitCalled(k) == idx > k \/ (idx = k /\ pc \in {"for_commits", "done"})

----------------------------------------------------------------------------
(* C1: when planning returns a PullRequestDescription, set_pr_description   *)
(* is called exactly once in the attempt, with that description's title    *)
(* and body, before any call write_commit makes for any plan entry.        *)
C1_DescriptionPublishedOnceFirst ==
    Planned =>
        LET S == CallIdx("set_pr_description") IN
        /\ Cardinality(S) <= 1
        /\ pc = "done" => Cardinality(S) = 1
        /\ \A i \in S : calls[i].args = [title |-> PlannedDescription.title,
                                         body  |-> PlannedDescription.body]
        /\ \A j \in DOMAIN calls : IsRoundCall(calls[j]) => \E i \in S : i < j

C1_Witness ==
    /\ Planned
    /\ Completed
    /\ Cardinality(CallIdx("set_pr_description")) = 1
    /\ Cardinality(CallIdx("commit")) = 2

(* C2: in an attempt without collaborator failure over a plan of N entries  *)
(* write_commit runs exactly N times, the k-th time for the k-th entry,    *)
(* and every codegen run starts with context['action_history'] = [].       *)
C2_OneRoundPerEntryHistoryReset ==
    /\ \A i \in DOMAIN calls :
          IsCodegenCall(calls[i]) =>
              /\ "action_history" \in DOMAIN calls[i].args.context
              /\ calls[i].args.context["action_history"] = ListOf(<<>>)
    /\ (Planned /\ Completed) =>
          LET starts == CallsTo("start_section") IN
          /\ Len(starts) = Len(Plan)
          /\ Len(CodegenCalls) = Len(Plan)
          /\ \A k \in 1..Len(Plan) :
                /\ starts[k].args.text = "Writing commit " \o MessageOf(k)
                /\ CodegenCalls[k].args.context["current_commit"] = Plan[k]

C2_Witness ==
    /\ Planned
    /\ Completed
    /\ Len(Plan) = 2
    /\ Plan[1] # Plan[2]
    /\ "action_history" \in DOMAIN PlannedContext
    /\ Len(CodegenCalls) = 2
    /\ CodegenCalls[1].returned.context["action_history"] # ListOf(<<>>)

(* C3: when the context returned by planning has no                        *)
(* 'pull_request_description' key, create_pull_request returns normally    *)
(* and makes no set_pr_description, section, codegen, get_diff or commit   *)
(* call.                                                                   *)
C3_NoDescriptionAbortsSilently ==
    DescriptionAbsent =>
        /\ Len(calls) = 2
        /\ \A j \in DOMAIN calls :
              ~IsRoundCall(calls[j]) /\ calls[j].op # "set_pr_description"
        /\ pc \in {"check_description", "done"}
        /\ pc = "done" => outcome = Returned

C3_Witness ==
    /\ DescriptionAbsent
    /\ pc = "done"
    /\ \E i \in DOMAIN calls :
          /\ IsPlanningCall(calls[i])
          /\ calls[i].returned.executed = <<"request_more_information">>

(* C4: in a write_commit round whose get_diff returns an empty diff, commit *)
(* is called exactly once with the entry's message and push=True, the      *)
(* end_section report is the 'Empty commit <message>' warning, no          *)
(* 'Committed' report and no code block is published for the entry, and    *)
(* the empty diff does not make the attempt fail.                          *)
C4_EmptyDiffStillCommitted ==
    \A i \in CallIdx("get_diff") :
        (calls[i].raised = NoException /\ calls[i].returned = "") =>
            LET k == calls[i].entry
                E == EntryIdx("end_section", k)
                C == EntryIdx("commit", k)
            IN
            /\ EntryIdx("publish_code_block", k) = {}
            /\ Cardinality(E) <= 1
            /\ Cardinality(C) <= 1
            /\ \A j \in E : calls[j].args.text = "Empty commit " \o MessageOf(k)
            /\ \A j \in C : /\ calls[j].args = [message |-> MessageOf(k), push |-> TRUE]
                            /\ \E e \in E : i < e /\ e < j
            /\ Reported(k) => Cardinality(E) = 1
            /\ CommitCalled(k) => Cardinality(C) = 1
            /\ (pc = "done" /\ idx = k) =>
                  \/ outcome = Returned
                  \/ /\ outcome = calls[Len(calls)].raised
                     /\ calls[Len(calls)].op = "commit"

C4_Witness ==
    /\ Completed
    /\ \E i \in CallIdx("get_diff") :
          /\ calls[i].raised = NoException
          /\ calls[i].returned = ""
          /\ \E j \in EntryIdx("commit", calls[i].entry) :
                calls[j].raised = NoException /\ j > i

(* C5: in a write_commit round whose get_diff returns a non-empty diff,    *)
(* publish_code_block is called exactly once with that diff, before the    *)
(* 'Committed <message>' end_section report of the entry, and no warning   *)
(* is reported for the entry.                                              *)
C5_CodeBlockBeforeSuccess ==
    \A i \in CallIdx("get_diff") :
        (calls[i].raised = NoException /\ calls[i].returned # "") =>
            LET k == calls[i].entry
                B == EntryIdx("publish_code_block", k)
                E == EntryIdx("end_section", k)
            IN
            /\ Cardinality(B) <= 1
            /\ Cardinality(E) <= 1
            /\ \A b \in B : calls[b].args.code = calls[i].returned /\ i < b
            /\ \A e \in E : /\ calls[e].args.text = "Committed " \o MessageOf(k)
                            /\ \E b \in B : b < e
            /\ Reported(k) => Cardinality(B) = 1 /\ Cardinality(E) = 1

C5_Witness ==
    \E i \in CallIdx("get_diff") :
        /\ calls[i].raised = NoException
        /\ calls[i].returned # ""
        /\ EntryIdx("publish_code_block", calls[i].entry) # {}
        /\ EntryIdx("end_section", calls[i].entry) # {}
        /\ EntryIdx("commit", calls[i].entry) # {}

\* The literal parts the agent puts in front of a commit message.
TextPrefixes == {"", "Writing commit ", "Committed ", "Empty commit ", "Diff", "diff"}

\* Text s carries the commit message m.
Mentions(s, m) == \E p \in TextPrefixes : s = p \o m

(* C6 as stated: with a non-empty diff the published code block and the    *)
(* success message both reference the commit message of the entry.         *)
C6_BothReferenceMessage ==
    \A b \in CallIdx("publish_code_block") :
        LET k == calls[b].entry IN
        /\ \/ Mentions(calls[b].args.heading, MessageOf(k))
           \/ Mentions(calls[b].args.code, MessageOf(k))
           \/ Mentions(calls[b].args.language, MessageOf(k))
        /\ \A e \in EntryIdx("end_section", k) : Mentions(calls[e].args.text, MessageOf(k))

(* C6 amended: with a non-empty diff the success message is                *)
(* 'Committed <message>' for the message of the entry being written; the   *)
(* code block is published with heading 'Diff', the diff as its code and   *)
(* language 'diff', with no argument taken from the commit message.        *)
C6_SuccessNamesMessageBlockIsDiff ==
    \A i \in CallIdx("get_diff") :
        (calls[i].raised = NoException /\ calls[i].returned # "") =>
            LET k == calls[i].entry IN
            /\ \A b \in EntryIdx("publish_code_block", k) :
                  calls[b].args = [heading |-> "Diff", code |-> calls[i].returned,
                                   language |-> "diff"]
            /\ \A e \in EntryIdx("end_section", k) :
                  /\ Mentions(calls[e].args.text, MessageOf(k))
                  /\ calls[e].args.text = "Committed " \o MessageOf(k)

C6_Witness ==
    \E b \in CallIdx("publish_code_block") :
        /\ calls[b].args.code # ""
        /\ \E e \in EntryIdx("end_section", calls[b].entry) : e > b

C8_CommitsAndReportsInPlanOrder ==
    (Planned /\ Completed) =>
        LET commits == CallsTo("commit")
            ends    == CallsTo("end_section")
            diffs   == CallsTo("get_diff")
        IN
        /\ Len(commits) = Len(Plan)
        /\ Len(ends) = Len(Plan)
        /\ Len(diffs) = Len(Plan)
        /\ \A k \in 1..Len(Plan) :
              /\ commits[k].args = [message |-> MessageOf(k), push |-> TRUE]
              /\ ends[k].args.text =
                    IF diffs[k].returned # "" THEN "Committed " \o MessageOf(k)
                    ELSE "Empty commit " \o MessageOf(k)

\* The scenario of the specification: two entries, non-empty then empty diff.
C8_Witness ==
    /\ Planned
    /\ Completed
    /\ Len(Plan) = 2
    /\ MessageOf(1) = "Add foo.py"
    /\ MessageOf(2) = "Fix bar.py"
    /\ Len(CallsTo("get_diff")) = 2
    /\ CallsTo("get_diff")[1].returned # ""
    /\ CallsTo("get_diff")[2].returned = ""

(* C9: when the value under 'pull_request_description' is not a            *)
(* PullRequestDescription, create_pull_request raises a TypeError naming   *)
(* the actual and the expected type and makes no further call.             *)
C9_IllTypedDescriptionRaises ==
    DescriptionIllTyped =>
        /\ Len(calls) = 2
        /\ \A j \in DOMAIN calls :
              ~IsRoundCall(calls[j]) /\ calls[j].op # "set_pr_description"
        /\ pc \in {"check_description", "done"}
        /\ pc = "done" =>
              outcome = [kind |-> "TypeError",
                         message |-> "Actions returned a pull request description of type "
                                     \o PlannedContext["pull_request_description"].type
                                     \o " instead of PullRequestDescription"]

C9_Witness ==
    /\ DescriptionIllTyped
    /\ pc = "done"
    /\ outcome.kind = "TypeError"

(* C10: when commit fails while writing entry k, the failure leaves        *)
(* create_pull_request unchanged: commit was called once for entry k, no   *)
(* call follows it, and the end_section report of entry k is on record.    *)
C10_CommitFailurePropagates ==
    \A i \in CallIdx("commit") :
        calls[i].raised # NoException =>
            LET k == calls[i].entry IN
            /\ i = Len(calls)
            /\ pc = "done"
            /\ outcome = calls[i].raised
            /\ EntryIdx("commit", k) = {i}
            /\ \A j \in DOMAIN calls : calls[j].entry <= k
            /\ i > 1
            /\ calls[i - 1].op = "end_section"
            /\ calls[i - 1].entry = k
            /\ calls[i - 1].args.text \in {"Committed " \o MessageOf(k),
                                           "Empty commit " \o MessageOf(k)}

C10_Witness ==
    /\ pc = "done"
    /\ idx = 1
    /\ Len(Plan) = 2
    /\ calls[Len(calls)].op = "commit"
    /\ calls[Len(calls)].raised # NoException
    /\ outcome.kind = "ServiceError"

(* C11: in every create_pull_request attempt overwrite_new_branch is        *)
(* called exactly once, as the first collaborator call, before planning    *)
(* and every publish, diff and commit call; when it raises the attempt     *)
(* ends with that failure and no other call is made.                       *)
C11_BranchCreatedFirstOnce ==
    /\ \A i \in DOMAIN calls : calls[i].op = "overwrite_new_branch" <=> i = 1
    /\ (event.type = "IssueLabelEvent" /\ pc \notin {"handle_event", "overwrite_new_branch"})
          => Len(calls) >= 1
    /\ (calls # <<>> /\ calls[1].raised # NoException) =>
          /\ Len(calls) = 1
          /\ pc = "done"
          /\ outcome = calls[1].raised

C11_Witness ==
    /\ Len(calls) = 1
    /\ calls[1].op = "overwrite_new_branch"
    /\ calls[1].raised # NoException
    /\ pc = "done"

\* The calls write_commit made for entry k, in order.
RoundCalls(k) == SelectSeq(calls, LAMBDA c : c.entry = k)

\* The operations of a complete write_commit round whose diff is d.
RoundOps(d) ==
    <<"start_section", "run_actions_iteratively", "get_diff">>
    \o (IF d # "" THEN <<"publish_code_block">> ELSE <<>>)
    \o <<"end_section", "commit">>

(* C12: every write_commit round makes its calls in the order               *)
(* start_section, codegen run (on the context stamped with current_commit  *)
(* and an empty action_history), get_diff, the code block when the diff is *)
(* non-empty, one end_section, one commit(message, push=True); a call is   *)
(* made only after the previous one returned.                              *)
C12_RoundStepsInOrder ==
    \A k \in 1..idx :
        LET round == RoundCalls(k)
            ops   == RoundOps(IF Len(round) >= 3 /\ round[3].raised = NoException
                              THEN round[3].returned ELSE "")
        IN
        /\ Len(round) <= Len(ops)
        /\ \A j \in 1..Len(round) :
              /\ round[j].op = ops[j]
              /\ j < Len(round) => round[j].raised = NoException
        /\ Len(round) >= 2 =>
              /\ round[2].args.context["current_commit"] = Plan[k]
              /\ round[2].args.context["action_history"] = ListOf(<<>>)
        /\ (Len(round) = Len(ops)) =>
              round[Len(round)].args = [message |-> MessageOf(k), push |-> TRUE]
        /\ (k < idx \/ pc = "for_commits" \/ (pc = "done" /\ outcome = Returned))
              => Len(round) = Len(ops)

C12_Witness ==
    /\ Completed
    /\ idx = 2
    /\ Len(RoundCalls(1)) = 6
    /\ Len(RoundCalls(2)) = 5

(* C13: the entries of a plan are written strictly one after the other:    *)
(* the calls of different entries never interleave, every call of entry    *)
(* k > 1 comes after the commit of entry k-1 has returned, and exactly one *)
(* get_diff lies before the first commit and between two consecutive       *)
(* commits.                                                                *)
C13_EntriesWrittenSequentially ==
    /\ \A i, j \in DOMAIN calls : i < j => calls[i].entry <= calls[j].entry
    /\ \A j \in DOMAIN calls :
          calls[j].entry > 1 =>
              \E i \in 1..(j - 1) :
                  /\ calls[i].op = "commit"
                  /\ calls[i].entry = calls[j].entry - 1
                  /\ calls[i].raised = NoException
    /\ \A c \in CallIdx("commit") :
          LET earlier == {b \in CallIdx("commit") : b < c}
              from    == IF earlier = {} THEN 0
                         ELSE CHOOSE b \in earlier : \A o \in earlier : o <= b
          IN Cardinality({g \in CallIdx("get_diff") : from < g /\ g < c}) = 1

C13_Witness ==
    /\ Cardinality(CallIdx("commit")) = 2
    /\ Cardinality(CallIdx("get_diff")) = 2
    /\ \E j \in DOMAIN calls : calls[j].entry = 2 /\ calls[j].op = "commit"

\* The planning run and the codegen runs, in order.
Runs == CallsTo("run_actions_iteratively")

\* Context c with the two reserved keys set for the round of entry cp.
Restamped(c, cp) ==
    [key \in (DOMAIN c) \cup {"current_commit", "action_history"} |->
        IF key = "current_commit" THEN cp
        ELSE IF key = "action_history" THEN ListOf(<<>>)
        ELSE c[key]]

(* C14: the context handed to the codegen run of an entry is the context   *)
(* returned by the previous run (the planning run for the first entry)     *)
(* with only 'current_commit' and 'action_history' overwritten; every      *)
(* other key is passed on as it was returned.                              *)
C14_ContextThreadedBetweenRounds ==
    \A j \in 1..(Len(Runs) - 1) :
        /\ Runs[j].raised = NoException
        /\ Runs[j + 1].args.context = Restamped(Runs[j].returned.context, Plan[j])

C14_Witness ==
    /\ Len(Runs) = 3
    /\ "edited" \in DOMAIN Runs[2].returned.context
    /\ "edited" \in DOMAIN Runs[3].args.context
    /\ Runs[2].returned.context["action_history"] # ListOf(<<>>)

(* C15: at the start of every codegen run context['current_commit'] is the *)
(* plan entry of that round, whatever the previous round left under that   *)
(* key, and the message passed to commit is the message of that entry, not *)
(* of the current_commit found in the context the codegen run returned.    *)
C15_CurrentCommitIsEntryOfRound ==
    \A i \in DOMAIN calls :
        /\ IsCodegenCall(calls[i]) =>
              /\ "current_commit" \in DOMAIN calls[i].args.context
              /\ calls[i].args.context["current_commit"] = Plan[calls[i].entry]
        /\ calls[i].op = "commit" =>
              calls[i].args.message = Plan[calls[i].entry].commit_message

\* Round 1 returned a context whose current_commit was overwritten with
\* another commit; round 1 still committed its own message and round 2
\* ran on its own entry.
C15_Witness ==
    /\ Len(CodegenCalls) = 2
    /\ "current_commit" \in DOMAIN CodegenCalls[1].returned.context
    /\ CodegenCalls[1].returned.context["current_commit"] # Plan[1]
    /\ CodegenCalls[1].returned.context["current_commit"] # Plan[2]
    /\ \E c \in EntryIdx("commit", 1) :
          calls[c].args.message
              # CodegenCalls[1].returned.context["current_commit"].commit_message

\* Number of actions the runs of rs executed.
RECURSIVE ExecutedIn(_)
ExecutedIn(rs) ==
    IF rs = <<>> THEN 0
    ELSE (IF Head(rs).raised = NoException THEN Len(Head(rs).returned.executed) ELSE 0)
         + ExecutedIn(Tail(rs))

(* C16: run_actions_iteratively is called once for planning, with the      *)
(* planning actions and max_iterations=1, and once per plan entry for      *)
(* codegen, with the codegen actions, max_iterations=                      *)
(* max_codegen_iterations and include_finished=True; a run executes only   *)
(* actions of its own set and at most max_iterations of them, so an        *)
(* attempt over N entries executes at most 1 + N*max_codegen_iterations    *)
(* actions.                                                                *)
C16_ActionExecutionsBounded ==
    /\ \A i \in CallIdx("run_actions_iteratively") :
          LET c == calls[i] IN
          /\ i = 2 <=> c.entry = 0
          /\ c.entry = 0 =>
                /\ c.args.action_ids = planning_actions
                /\ c.args.max_iterations = 1
          /\ c.entry > 0 =>
                /\ c.args.action_ids = codegen_actions
                /\ c.args.max_iterations = max_codegen_iterations
                /\ c.args.include_finished = TRUE
                /\ EntryIdx("run_actions_iteratively", c.entry) = {i}
          /\ c.raised = NoException =>
                /\ Len(c.returned.executed) <= c.args.max_iterations
                /\ \A n \in DOMAIN c.returned.executed :
                      c.returned.executed[n] \in c.args.action_ids
    /\ \A k \in 1..idx :
          (k < idx \/ pc \notin {"start_section", "stamp_context", "codegen"})
              => Cardinality(EntryIdx("run_actions_iteratively", k)) = 1
    /\ ExecutedIn(Runs) <= 1 + idx * max_codegen_iterations
    /\ Planned => idx <= Len(Plan)

\* A completed attempt over two entries: one codegen round used the whole
\* bound, the other ended before it.
C16_Witness ==
    /\ Completed
    /\ Len(CodegenCalls) = 2
    /\ Len(Runs[1].returned.executed) = 1
    /\ Len(CodegenCalls[1].returned.executed) = max_codegen_iterations
    /\ Len(CodegenCalls[2].returned.executed) < max_codegen_iterations

\* The states of the orchestrator, read off the calls made and the outcome.
BranchCreated ==
    /\ calls # <<>>
    /\ calls[1].op = "overwrite_new_branch"
    /\ calls[1].raised = NoException

Failed == outcome.kind \in {"NotImplementedError", "TypeError", "ServiceError"}

Aborted == outcome = Returned /\ DescriptionAbsent

CommitsWritten ==
    /\ outcome = Returned
    /\ Planned
    /\ Len(SelectSeq(calls, LAMBDA c : c.op = "commit" /\ c.raised = NoException))
          = Len(Plan)

Phase ==
    IF Failed THEN "Failed"
    ELSE IF outcome = Returned
         THEN (IF DescriptionAbsent THEN "Aborted" ELSE "CommitsWritten")
    ELSE IF PlanningDone THEN "Planned"
    ELSE IF BranchCreated THEN "BranchCreated"
    ELSE "Start"

PhaseOrder ==
    /\ PlanningDone => BranchCreated
    /\ (\E j \in DOMAIN calls : IsRoundCall(calls[j]) \/ calls[j].op = "set_pr_description")
          => Planned
    /\ ~(Aborted /\ CommitsWritten)
    /\ Aborted => \A j \in DOMAIN calls : calls[j].op # "commit"
    /\ pc = "done" =>
          \/ Aborted /\ ~CommitsWritten /\ ~Failed
          \/ CommitsWritten /\ ~Aborted /\ ~Failed
          \/ Failed /\ ~Aborted /\ ~CommitsWritten

PhaseStep ==
    /\ Phase' = "Start" => Phase = "Start"
    /\ Phase' = "BranchCreated" => Phase \in {"Start", "BranchCreated"}
    /\ Phase' = "Planned" => Phase \in {"BranchCreated", "Planned"}
    /\ Phase' \in {"Aborted", "CommitsWritten"} => Phase \in {"Planned", Phase'}

(* C17: the orchestrator moves through Start, BranchCreated, Planned and   *)
(* then Aborted or CommitsWritten, in that order only; nothing is          *)
(* published or committed before Planned; Aborted and CommitsWritten       *)
(* exclude each other; and when collaborator calls do not hang every       *)
(* attempt ends in exactly one of Aborted, CommitsWritten (all entries     *)
(* committed) or a raised failure.                                         *)
C17_OrchestratorStateMachine ==
    /\ []PhaseOrder
    /\ [][PhaseStep]_vars
    /\ <>(pc = "done")

C17_Witness ==
    /\ CommitsWritten
    /\ pc = "done"
    /\ Len(Plan) = 2

\* A codegen run that returned a context whose description is gone or is
\* no longer the planned one.
DescriptionDisturbed(c) ==
    /\ IsCodegenCall(c)
    /\ c.raised = NoException
    /\ \/ ~Has(c.returned.context, "pull_request_description")
       \/ c.returned.context["pull_request_description"] # PlannedDescription

(* C18: the plan is fixed when planning returns: the entries the loop      *)
(* writes are the commits of the description found in the context right    *)
(* after the planning run, one at a time and each exactly once, also when  *)
(* a codegen action of some round replaces or removes the context's        *)
(* 'pull_request_description' key.                                         *)
C18_PlanFixedAfterPlanning ==
    Planned =>
        LET starts == CallsTo("start_section") IN
        /\ Len(starts) <= Len(Plan)
        /\ \A k \in DOMAIN starts :
              /\ starts[k].entry = k
              /\ starts[k].args.text = "Writing commit " \o MessageOf(k)
        /\ pc \notin {"check_description", "done"} => pr_desc = PlannedDescription
        /\ (idx > 0 /\ pc # "done") => commit_plan = Plan[idx]
        /\ Completed => Len(starts) = Len(Plan)

C18_Witness ==
    /\ Planned
    /\ Completed
    /\ Len(Plan) = 2
    /\ Len(CodegenCalls) = 2
    /\ ~Has(CodegenCalls[1].returned.context, "pull_request_description")
    /\ DescriptionDisturbed(CodegenCalls[1])

\* The same with the description replaced by another plan in round one.
C18_WitnessReplaced ==
    /\ Planned
    /\ Completed
    /\ Len(Plan) = 2
    /\ Len(CodegenCalls) = 2
    /\ Has(CodegenCalls[1].returned.context, "pull_request_description")
    /\ DescriptionDisturbed(CodegenCalls[1])

\* The keys a run of the present attempt can have been handed: 'issue', the
\* two keys write_commit stamps, and whatever an earlier run of the same
\* attempt handed back.
KnownBefore(j) ==
    {"issue"}
    \cup (IF calls[j].entry > 0 THEN {"current_commit", "action_history"} ELSE {})
    \cup UNION {DOMAIN calls[i].returned.context :
                  i \in {h \in 1..(j - 1) : /\ calls[h].op = "run_actions_iteratively"
                                            /\ calls[h].raised = NoException}}

Sections == SelectSeq(calls, LAMBDA c : c.op \in {"start_section", "end_section"})

SectionOpen == Len(Sections) % 2 = 1

(* C20: start_section and end_section calls alternate, beginning with      *)
(* start_section; the end_section after the start_section of entry k       *)
(* belongs to entry k and names the same commit message; a failure-free    *)
(* attempt ends with no section open; and an attempt ends with a section   *)
(* open exactly when the codegen run or the get_diff of that entry raised. *)
C20_SectionsBalanced ==
    /\ \A i \in DOMAIN Sections :
          Sections[i].op = IF i % 2 = 1 THEN "start_section" ELSE "end_section"
    /\ \A i \in DOMAIN Sections :
          i % 2 = 0 =>
             LET k == Sections[i - 1].entry IN
             /\ Sections[i].entry = k
             /\ Sections[i - 1].args.text = "Writing commit " \o MessageOf(k)
             /\ Sections[i].args.text \in
                   {"Committed " \o MessageOf(k), "Empty commit " \o MessageOf(k)}
    /\ Completed => ~SectionOpen
    /\ pc = "done" =>
          (SectionOpen <=>
              /\ calls # <<>>
              /\ LET last == calls[Len(calls)] IN
                 /\ last.raised # NoException
                 /\ last.op \in {"run_actions_iteratively", "get_diff"}
                 /\ last.entry > 0
                 /\ last.entry = Sections[Len(Sections)].entry)

\* Two sections opened and closed, one of them over an empty diff.
C20_Witness ==
    /\ Planned
    /\ Completed
    /\ Len(Plan) = 2
    /\ Len(Sections) = 4
    /\ \E i \in DOMAIN Sections :
          Sections[i].args.text = "Empty commit " \o MessageOf(Sections[i].entry)

\* The second section is left open by a failing get_diff.
C20_WitnessOpen ==
    /\ pc = "done"
    /\ SectionOpen
    /\ Len(Sections) = 3
    /\ calls[Len(calls)].op = "get_diff"

====
